---- MODULE Spec2Model ----
(***************************************************************************)
(* Instrument drivers of pymeasure/instruments: the acquisition sequencer  *)
(* of the two pyvisa-based drivers (Keithley2182A, Keithley6430) and the   *)
(* declarative property tables of the Instrument-based drivers, run        *)
(* against a simulated transport and instrument.                           *)
(***************************************************************************)
EXTENDS Integers, Sequences, FiniteSets, TLC

VARIABLES
    drv,    \* class of the driver instance under test
    cond,   \* instrument: status condition register (:STAT:MEAS:COND?)
    trace,  \* instrument: trace buffer, the readings accumulated so far
    outp,   \* instrument: source output on
    armed,  \* instrument: buffer control NEXT (readings are being stored)
    op,     \* driver: the call made last
    io,     \* driver: the transport calls of the call made last, in order
    ret,    \* driver: what the call made last handed to its caller
    seq,    \* sequencer position: Idle, Armed, Done
    pre,    \* sequencer position and buffer occupancy when the last call began
    arg,    \* driver: the property and value of the property access made last
    held,   \* instrument: the property setting written last
    window, \* instrument: the waveform transfer window (DAT:STAR, DAT:STOP)
    pc      \* caller: the statement of the acquisition script to run next

vars ==
    <<drv, cond, trace, outp, armed, op, io, ret, seq, pre, arg, held,
      window, pc>>

(***************************************************************************)
(* Bounds of the model.                                                    *)
(***************************************************************************)
\* readings the modelled trace buffer holds (the instrument's is 100 points)
MaxTrace == 3
\* largest value of the 15-bit status condition register
MaxCond == 32767

\* readings the instrument can store
Readings == {1, 2, 3}
\* register values the instrument moves between in the sequencer model
CondSamples == {0, 767, 768, 895, 896, 1023}
\* transport faults (pyvisa raises VisaIOError carrying the status code)
Faults == {"timeout", "disconnected"}
Outcomes == {"ok"} \cup Faults

(***************************************************************************)
(* ASCII numerals on the wire: a numeral is its sequence of decimal        *)
(* digits; int() and the ASCII-values parser read it back.                 *)
(***************************************************************************)
RECURSIVE DecimalText(_)
DecimalText(n) ==
    IF n < 10 THEN <<n>> ELSE Append(DecimalText(n \div 10), n % 10)

RECURSIVE ParseInt(_)
ParseInt(ds) ==
    IF Len(ds) = 0 THEN 0
    ELSE 10 * ParseInt(SubSeq(ds, 1, Len(ds) - 1)) + ds[Len(ds)]

RECURSIVE Sum(_)
Sum(s) == IF Len(s) = 0 THEN 0 ELSE Head(s) + Sum(Tail(s))

(***************************************************************************)
(* What a call hands back: nothing, a boolean, a list of numbers, one      *)
(* number (kept as the fraction num/den), a property value, or an          *)
(* exception.                                                              *)
(***************************************************************************)
NoResult ==
    [tag |-> "none", b |-> FALSE, items |-> <<>>, num |-> 0, den |-> 1,
     exc |-> "none", val |-> [s |-> "none"]]
RetBool(x) == [NoResult EXCEPT !.tag = "bool", !.b = x]
RetList(s) == [NoResult EXCEPT !.tag = "list", !.items = s]
RetNumber(n, d) == [NoResult EXCEPT !.tag = "number", !.num = n, !.den = d]
RetRaise(e) == [NoResult EXCEPT !.tag = "raise", !.exc = e]
RetValue(v) == [NoResult EXCEPT !.tag = "value", !.val = v]

(***************************************************************************)
(* The transport (pyvisa resource) as the driver sees it: each call is     *)
(* logged with its command text, its reply and its fault.  A compound      *)
(* command string is the sequence of its ';'-separated commands.           *)
(***************************************************************************)
Ev(kind, cmds, reply, secs, outcome) ==
    [kind |-> kind, cmds |-> cmds, reply |-> reply, secs |-> secs,
     fault |-> IF outcome = "ok" THEN "none" ELSE outcome]

\* resource.write(text)
Write(cmds, outcome) == Ev("write", cmds, <<>>, 0, outcome)

\* resource.query(":STAT:MEAS:COND?"): the register as an ASCII numeral
QueryCond(outcome) ==
    Ev("query", <<":STAT:MEAS:COND?">>,
       IF outcome = "ok" THEN <<DecimalText(cond)>> ELSE <<>>, 0, outcome)

\* resource.query_ascii_values("TRAC:DATA?"): the trace buffer as numerals
QueryData(outcome) ==
    Ev("query_ascii_values", <<"TRAC:DATA?">>,
       IF outcome = "ok"
       THEN [i \in 1..Len(trace) |-> DecimalText(trace[i])] ELSE <<>>,
       0, outcome)

\* the list of numbers query_ascii_values parses out of the reply
AsciiValues(reply) == [i \in 1..Len(reply) |-> ParseInt(reply[i])]

\* time.sleep(secs)
Sleep(secs) == Ev("sleep", <<>>, <<>>, secs, "ok")

Call(events, result) == [io |-> events, ret |-> result]

(***************************************************************************)
(* The instrument behind the transport: what each SCPI command of a        *)
(* delivered write does to the modelled instrument state.                  *)
(***************************************************************************)
Instrument == [trace |-> trace, outp |-> outp, armed |-> armed]

Execute(cmd, st) ==
    CASE cmd = ":TRAC:CLE" -> [st EXCEPT !.trace = <<>>]
      [] cmd = ":TRAC:FEED:CONT NEXT" -> [st EXCEPT !.armed = TRUE]
      [] cmd = ":OUTP ON" -> [st EXCEPT !.outp = TRUE]
      [] cmd = ":OUTP OFF" -> [st EXCEPT !.outp = FALSE]
      [] OTHER -> st

RECURSIVE ExecuteAll(_, _)
ExecuteAll(cmds, st) ==
    IF Len(cmds) = 0 THEN st
    ELSE ExecuteAll(Tail(cmds), Execute(Head(cmds), st))

\* the instrument after the writes of a call; a write that faulted may or
\* may not have reached the instrument (delivered)
RECURSIVE AfterWrites(_, _, _)
AfterWrites(events, delivered, st) ==
    IF Len(events) = 0 THEN st
    ELSE LET e == Head(events)
             next == IF e.kind = "write" /\ (e.fault = "none" \/ delivered)
                     THEN ExecuteAll(e.cmds, st) ELSE st
         IN AfterWrites(Tail(events), delivered, next)

(***************************************************************************)
(* Keithley2182A (pyvisa driver).                                          *)
(***************************************************************************)
Threshold2182A == 896

Keithley2182A_status(outcome) ==
    LET q == QueryCond(outcome)
    IN  IF outcome # "ok" THEN Call(<<q>>, RetRaise(outcome))
        ELSE Call(<<q>>, RetNumber(ParseInt(q.reply[1]), 1))

\* Faulty variant: the trace buffer is cleared last instead of first.
Keithley2182A_trigger_clear_last(outcome) ==
    LET w == Write(<<":SENS:FUNC 'VOLT'", ":TRAC:POIN 100",
                     ":TRAC:FEED:CONT NEXT", ":TRAC:FEED SENS",
                     ":INIT:CONT 1", ":TRAC:CLE">>, outcome)
    IN  IF outcome # "ok" THEN Call(<<w>>, RetRaise(outcome))
        ELSE Call(<<w, Sleep(1)>>, NoResult)

Keithley2182A_trigger(outcome) ==
    LET w == Write(<<":TRAC:CLE", ":SENS:FUNC 'VOLT'", ":TRAC:POIN 100",
                     ":TRAC:FEED:CONT NEXT", ":TRAC:FEED SENS",
                     ":INIT:CONT 1">>, outcome)
    IN  IF outcome # "ok" THEN Call(<<w>>, RetRaise(outcome))
        ELSE Call(<<w, Sleep(1)>>, NoResult)

\* Faulty variant: the comparison is <= instead of <.
Keithley2182A_check_status_le(outcome) ==
    LET s == Keithley2182A_status(outcome)
    IN  IF s.ret.tag = "raise" THEN s
        ELSE IF s.ret.num <= Threshold2182A THEN Call(s.io, RetBool(FALSE))
        ELSE Call(s.io, RetBool(TRUE))

Keithley2182A_check_status(outcome) ==
    LET s == Keithley2182A_status(outcome)
    IN  IF s.ret.tag = "raise" THEN s
        ELSE IF s.ret.num < Threshold2182A THEN Call(s.io, RetBool(FALSE))
        ELSE Call(s.io, RetBool(TRUE))

\* Faulty variant: the readings are reduced to their mean, as in Keithley6430.
Keithley2182A_get_buffer_mean(outcome) ==
    LET q == QueryData(outcome)
        voltage == AsciiValues(q.reply)
    IN  IF outcome # "ok" THEN Call(<<q>>, RetRaise(outcome))
        ELSE IF Len(voltage) = 0 THEN Call(<<q>>, RetRaise("ZeroDivisionError"))
        ELSE Call(<<q>>, RetNumber(Sum(voltage), Len(voltage)))

Keithley2182A_get_buffer(outcome) ==
    LET q == QueryData(outcome)
    IN  IF outcome # "ok" THEN Call(<<q>>, RetRaise(outcome))
        ELSE Call(<<q>>, RetList(AsciiValues(q.reply)))

(***************************************************************************)
(* Keithley6430 (pyvisa driver).                                           *)
(***************************************************************************)
Threshold6430 == 768

Keithley6430_status(outcome) ==
    LET q == QueryCond(outcome)
    IN  IF outcome # "ok" THEN Call(<<q>>, RetRaise(outcome))
        ELSE Call(<<q>>, RetNumber(ParseInt(q.reply[1]), 1))

\* Faulty variant: the compound command does not clear the trace buffer.
Keithley6430_trigger_no_clear(outcome) ==
    LET w == Write(<<":SOUR:FUNC VOLT", ":SENS:FUNC 'CURR'",
                     ":SENS:VOLT:NPLC 1", ":DISP:DIG 7", ":FORM:ELEM CURR",
                     ":TRAC:POIN 100", ":TRIG:COUN 100", ":TRAC:FEED SENS",
                     ":TRAC:FEED:CONT NEXT", ":OUTP ON", ":INIT">>, outcome)
    IN  IF outcome # "ok" THEN Call(<<w>>, RetRaise(outcome))
        ELSE Call(<<w, Sleep(1)>>, NoResult)

\* Faulty variant: the measurement is initiated before the output is on.
Keithley6430_trigger_init_before_output(outcome) ==
    LET w == Write(<<":TRAC:CLE", ":SOUR:FUNC VOLT", ":SENS:FUNC 'CURR'",
                     ":SENS:VOLT:NPLC 1", ":DISP:DIG 7", ":FORM:ELEM CURR",
                     ":TRAC:POIN 100", ":TRIG:COUN 100", ":TRAC:FEED SENS",
                     ":TRAC:FEED:CONT NEXT", ":INIT", ":OUTP ON">>, outcome)
    IN  IF outcome # "ok" THEN Call(<<w>>, RetRaise(outcome))
        ELSE Call(<<w, Sleep(1)>>, NoResult)

Keithley6430_trigger(outcome) ==
    LET w == Write(<<":TRAC:CLE", ":SOUR:FUNC VOLT", ":SENS:FUNC 'CURR'",
                     ":SENS:VOLT:NPLC 1", ":DISP:DIG 7", ":FORM:ELEM CURR",
                     ":TRAC:POIN 100", ":TRIG:COUN 100", ":TRAC:FEED SENS",
                     ":TRAC:FEED:CONT NEXT", ":OUTP ON", ":INIT">>, outcome)
    IN  IF outcome # "ok" THEN Call(<<w>>, RetRaise(outcome))
        ELSE Call(<<w, Sleep(1)>>, NoResult)

\* Faulty variant: a transport fault is swallowed and reported as not ready.
Keithley6430_check_status_swallow(outcome) ==
    LET s == Keithley6430_status(outcome)
    IN  IF s.ret.tag = "raise" THEN Call(s.io, RetBool(FALSE))
        ELSE IF s.ret.num < Threshold6430 THEN Call(s.io, RetBool(FALSE))
        ELSE Call(s.io, RetBool(TRUE))

\* Faulty variant: the check sleeps after reading the register.
Keithley6430_check_status_sleep(outcome) ==
    LET s == Keithley6430_status(outcome)
    IN  IF s.ret.tag = "raise" THEN s
        ELSE IF s.ret.num < Threshold6430
             THEN Call(s.io \o <<Sleep(1)>>, RetBool(FALSE))
        ELSE Call(s.io, RetBool(TRUE))

Keithley6430_check_status(outcome) ==
    LET s == Keithley6430_status(outcome)
    IN  IF s.ret.tag = "raise" THEN s
        ELSE IF s.ret.num < Threshold6430 THEN Call(s.io, RetBool(FALSE))
        ELSE Call(s.io, RetBool(TRUE))

\* Faulty variant: the readings are returned as received, as in Keithley2182A.
Keithley6430_get_buffer_list(outcome) ==
    LET q == QueryData(outcome)
    IN  IF outcome # "ok" THEN Call(<<q>>, RetRaise(outcome))
        ELSE Call(<<q>>, RetList(AsciiValues(q.reply)))

\* Faulty variant: the output is switched off once the buffer has been read.
Keithley6430_get_buffer_output_off(outcome) ==
    LET q == QueryData(outcome)
        voltage == AsciiValues(q.reply)
        w == Write(<<":OUTP OFF">>, "ok")
    IN  IF outcome # "ok" THEN Call(<<q>>, RetRaise(outcome))
        ELSE IF Len(voltage) = 0 THEN Call(<<q>>, RetRaise("ZeroDivisionError"))
        ELSE Call(<<q, w>>, RetNumber(Sum(voltage), Len(voltage)))

\* Faulty variant: an empty reply is reported as the reading 0.
Keithley6430_get_buffer_zero(outcome) ==
    LET q == QueryData(outcome)
        voltage == AsciiValues(q.reply)
    IN  IF outcome # "ok" THEN Call(<<q>>, RetRaise(outcome))
        ELSE IF Len(voltage) = 0 THEN Call(<<q>>, RetNumber(0, 1))
        ELSE Call(<<q>>, RetNumber(Sum(voltage), Len(voltage)))

Keithley6430_get_buffer(outcome) ==
    LET q == QueryData(outcome)
        voltage == AsciiValues(q.reply)
    IN  IF outcome # "ok" THEN Call(<<q>>, RetRaise(outcome))
        ELSE IF Len(voltage) = 0 THEN Call(<<q>>, RetRaise("ZeroDivisionError"))
        ELSE Call(<<q>>, RetNumber(Sum(voltage), Len(voltage)))

Keithley6430_disable_source(outcome) ==
    LET w == Write(<<":OUTP OFF">>, outcome)
    IN  IF outcome # "ok" THEN Call(<<w>>, RetRaise(outcome))
        ELSE Call(<<w>>, NoResult)

(***************************************************************************)
(* One driver call as a step: the call's transport traffic and result, the *)
(* instrument's reaction to its writes, and the sequencer position.        *)
(***************************************************************************)
Before == [seq |-> seq, held |-> trace # <<>>]

\* the bulk read of the call succeeded
ReadDone(c) ==
    \E i \in 1..Len(c.io) :
        c.io[i].kind = "query_ascii_values" /\ c.io[i].fault = "none"

Position(name, c) ==
    IF name = "trigger" /\ c.ret.tag = "none" THEN "Armed"
    ELSE IF name = "get_buffer" /\ ReadDone(c) THEN "Done"
    ELSE seq

Effect(name, c, delivered) ==
    LET st == AfterWrites(c.io, delivered, Instrument)
    IN  /\ op' = name
        /\ io' = c.io
        /\ ret' = c.ret
        /\ trace' = st.trace
        /\ outp' = st.outp
        /\ armed' = st.armed
        /\ seq' = Position(name, c)
        /\ pre' = Before
        /\ UNCHANGED <<drv, cond, arg, held, window>>

\* a call made outside the acquisition script
Does(name, c, delivered) == Effect(name, c, delivered) /\ UNCHANGED pc

Trigger2182A ==
    /\ drv = "Keithley2182A"
    /\ \E outcome \in Outcomes, delivered \in BOOLEAN :
          Does("trigger", Keithley2182A_trigger(outcome), delivered)

CheckStatus2182A ==
    /\ drv = "Keithley2182A"
    /\ \E outcome \in Outcomes :
          Does("check_status", Keithley2182A_check_status(outcome), FALSE)

GetBuffer2182A ==
    /\ drv = "Keithley2182A"
    /\ \E outcome \in Outcomes :
          Does("get_buffer", Keithley2182A_get_buffer(outcome), FALSE)

Trigger6430 ==
    /\ drv = "Keithley6430"
    /\ \E outcome \in Outcomes, delivered \in BOOLEAN :
          Does("trigger", Keithley6430_trigger(outcome), delivered)

CheckStatus6430 ==
    /\ drv = "Keithley6430"
    /\ \E outcome \in Outcomes :
          Does("check_status", Keithley6430_check_status(outcome), FALSE)

\* Faulty variant: the buffer is read only once the register reports done.
GetBuffer6430_guarded ==
    /\ drv = "Keithley6430"
    /\ cond >= Threshold6430
    /\ \E outcome \in Outcomes :
          Does("get_buffer", Keithley6430_get_buffer(outcome), FALSE)

GetBuffer6430 ==
    /\ drv = "Keithley6430"
    /\ \E outcome \in Outcomes :
          Does("get_buffer", Keithley6430_get_buffer(outcome), FALSE)

DisableSource6430 ==
    /\ drv = "Keithley6430"
    /\ \E outcome \in Outcomes, delivered \in BOOLEAN :
          Does("disable_source", Keithley6430_disable_source(outcome),
               delivered)

(***************************************************************************)
(* The instrument on its own: it stores a reading while the buffer is      *)
(* armed and has room, and its condition register changes.                 *)
(***************************************************************************)
Acquire ==
    /\ armed
    /\ Len(trace) < MaxTrace
    /\ \E r \in Readings : trace' = Append(trace, r)
    /\ armed' = (Len(trace) + 1 < MaxTrace)
    /\ UNCHANGED <<drv, cond, outp, op, io, ret, seq, pre, arg, held, window, pc>>

CondChange ==
    /\ \E c \in CondSamples : cond' = c
    /\ cond' # cond
    /\ UNCHANGED <<drv, trace, outp, armed, op, io, ret, seq, pre, arg, held,
                   window, pc>>

NoSetting == [name |-> "none", key |-> [s |-> "none"], text |-> [s |-> "none"]]
NoAccess == [name |-> "none", value |-> [s |-> "none"]]
NoWindow == [start |-> [s |-> "none"], stop |-> [s |-> "none"]]

Init ==
    /\ drv \in {"Keithley2182A", "Keithley6430"}
    /\ cond = 0
    /\ trace = <<>>
    /\ outp = FALSE
    /\ armed = FALSE
    /\ op = "none"
    /\ io = <<>>
    /\ ret = NoResult
    /\ seq = "Idle"
    /\ pre = [seq |-> "Idle", held |-> FALSE]
    /\ arg = NoAccess
    /\ held = NoSetting
    /\ window = NoWindow
    /\ pc = "none"

Next ==
    \/ Trigger2182A
    \/ CheckStatus2182A
    \/ GetBuffer2182A
    \/ Trigger6430
    \/ CheckStatus6430
    \/ GetBuffer6430
    \/ DisableSource6430
    \/ Acquire
    \/ CondChange

Spec == Init /\ [][Next]_vars

(***************************************************************************)
(* The status check on its own, for every value the register can report.   *)
(***************************************************************************)
InitStatus ==
    /\ drv \in {"Keithley2182A", "Keithley6430"}
    /\ cond \in 0..MaxCond
    /\ trace = <<>>
    /\ outp = FALSE
    /\ armed = FALSE
    /\ op = "none"
    /\ io = <<>>
    /\ ret = NoResult
    /\ seq = "Idle"
    /\ pre = [seq |-> "Idle", held |-> FALSE]
    /\ arg = NoAccess
    /\ held = NoSetting
    /\ window = NoWindow
    /\ pc = "none"

NextStatus ==
    \/ CheckStatus2182A
    \/ CheckStatus6430

SpecStatus == InitStatus /\ [][NextStatus]_vars

(***************************************************************************)
(* The acquisition script of keithley6430.py: trigger, report the status   *)
(* once, poll check_status() with a one-second sleep until it is true,     *)
(* switch the source off, read the buffer.  An exception of a call leaves  *)
(* the script.                                                             *)
(***************************************************************************)
\* the statement after a call: the next one, or none after an exception
Continue(c, next) == IF c.ret.tag = "raise" THEN "aborted" ELSE next

UsageTrigger ==
    /\ pc = "trigger"
    /\ \E outcome \in Outcomes, delivered \in BOOLEAN :
          LET c == Keithley6430_trigger(outcome)
          IN  Effect("trigger", c, delivered) /\ pc' = Continue(c, "status")

UsageStatus ==
    /\ pc = "status"
    /\ \E outcome \in Outcomes :
          LET c == Keithley6430_check_status(outcome)
          IN  Effect("check_status", c, FALSE) /\ pc' = Continue(c, "loop")

\* Faulty variant: the status is checked once and the script goes on.
UsageLoop_once ==
    /\ pc = "loop"
    /\ \E outcome \in Outcomes :
          LET c == Keithley6430_check_status(outcome)
          IN  Effect("check_status", c, FALSE) /\ pc' = Continue(c, "disable")

UsageLoop ==
    /\ pc = "loop"
    /\ \E outcome \in Outcomes :
          LET c == Keithley6430_check_status(outcome)
          IN  /\ Effect("check_status", c, FALSE)
              /\ pc' = Continue(c, IF c.ret.b THEN "disable" ELSE "sleep")

UsageSleep ==
    /\ pc = "sleep"
    /\ op' = "sleep"
    /\ io' = <<Sleep(1)>>
    /\ ret' = NoResult
    /\ pc' = "loop"
    /\ UNCHANGED <<drv, cond, trace, outp, armed, seq, pre, arg, held, window>>

UsageDisable ==
    /\ pc = "disable"
    /\ \E outcome \in Outcomes, delivered \in BOOLEAN :
          LET c == Keithley6430_disable_source(outcome)
          IN  Effect("disable_source", c, delivered) /\ pc' = Continue(c, "read")

UsageRead ==
    /\ pc = "read"
    /\ \E outcome \in Outcomes :
          LET c == Keithley6430_get_buffer(outcome)
          IN  Effect("get_buffer", c, FALSE) /\ pc' = Continue(c, "done")

\* the statements of the script
Script ==
    \/ UsageTrigger
    \/ UsageStatus
    \/ UsageLoop
    \/ UsageSleep
    \/ UsageDisable
    \/ UsageRead

InitUsage ==
    /\ drv = "Keithley6430"
    /\ cond = 0
    /\ trace = <<>>
    /\ outp = FALSE
    /\ armed = FALSE
    /\ op = "none"
    /\ io = <<>>
    /\ ret = NoResult
    /\ seq = "Idle"
    /\ pre = [seq |-> "Idle", held |-> FALSE]
    /\ arg = NoAccess
    /\ held = NoSetting
    /\ window = NoWindow
    /\ pc = "trigger"

NextUsage ==
    \/ UsageTrigger
    \/ UsageStatus
    \/ UsageLoop
    \/ UsageSleep
    \/ UsageDisable
    \/ UsageRead
    \/ Acquire
    \/ CondChange

\* the interpreter runs the script's next statement; the instrument is
\* under no obligation
SpecUsage == InitUsage /\ [][NextUsage]_vars /\ WF_vars(Script)

(***************************************************************************)
(* Numbers of the property drivers: a number is the decimal m * 10^e,      *)
(* kept normalised (m has no trailing zero), so equal numbers are equal    *)
(* records.                                                                *)
(***************************************************************************)
RECURSIVE Pow10(_)
Pow10(k) == IF k = 0 THEN 1 ELSE 10 * Pow10(k - 1)

RECURSIVE Norm(_)
Norm(x) ==
    IF x.m = 0 THEN [m |-> 0, e |-> 0]
    ELSE IF x.m % 10 = 0 THEN Norm([m |-> x.m \div 10, e |-> x.e + 1])
    ELSE x

Num(m, e) == Norm([m |-> m, e |-> e])

\* a text value (a str), told from a number by its field
Str(t) == [s |-> t]
IsText(v) == "s" \in DOMAIN v

Abs(n) == IF n < 0 THEN -n ELSE n
Lowest(a, b) == IF a.e < b.e THEN a.e ELSE b.e
Scaled(x, e0) == x.m * Pow10(x.e - e0)
Less(a, b) == Scaled(a, Lowest(a, b)) < Scaled(b, Lowest(a, b))
Plus(a, b) == Num(Scaled(a, Lowest(a, b)) + Scaled(b, Lowest(a, b)), Lowest(a, b))

RECURSIVE NumDigits(_)
NumDigits(n) == IF n < 10 THEN 1 ELSE 1 + NumDigits(n \div 10)

(***************************************************************************)
(* The conversions of the write formats (printf-style substitution).       *)
(***************************************************************************)
\* "%d" % v: the integer part of v
FormatD(v) ==
    LET a == Abs(v.m)
        t == IF v.e >= 0 THEN a * Pow10(v.e) ELSE a \div Pow10(-v.e)
    IN  Num(IF v.m < 0 THEN -t ELSE t, 0)

\* "%g" % v: v rounded to six significant digits
FormatG(v) ==
    LET a == Abs(v.m)
        k == NumDigits(a) - 6
    IN  IF k <= 0 THEN v
        ELSE LET q == a \div Pow10(k)
                 r == a % Pow10(k)
                 half == 5 * Pow10(k - 1)
                 up == r > half \/ (r = half /\ q % 2 = 1)
                 n == IF up THEN q + 1 ELSE q
             IN  Num(IF v.m < 0 THEN -n ELSE n, v.e + k)

\* "%f" % v: v rounded to six decimal places
FormatF(v) ==
    IF v.e >= -6 THEN v
    ELSE LET a == Abs(v.m)
             k == -6 - v.e
             q == a \div Pow10(k)
             r == a % Pow10(k)
             half == 5 * Pow10(k - 1)
             up == r > half \/ (r = half /\ q % 2 = 1)
             n == IF up THEN q + 1 ELSE q
         IN  Num(IF v.m < 0 THEN -n ELSE n, -6)

Format(conv, v) ==
    CASE conv = "d" -> FormatD(v)
      [] conv = "g" -> FormatG(v)
      [] conv = "f" -> FormatF(v)
      [] conv = "s" -> v
      [] OTHER -> Str("")

\* one command of a write format: text, conversion, text
Fmt(lead, conv, trail) == [lead |-> lead, conv |-> conv, trail |-> trail]

\* Instrument.control(get_command, set_command, docs, validator, values,
\* map_values); kind tells a dict of values from a list
Control(get, set, validator, kind, values, map_values) ==
    [get |-> get, set |-> set, validator |-> validator, kind |-> kind,
     values |-> values, map_values |-> map_values]

(***************************************************************************)
(* LakeShore330: the controls the class declares.                       *)
(***************************************************************************)
LakeShore330_setpoint ==
    Control("SETP?",
        <<Fmt("SETP ", "g", "")>>,
        "truncated_range", "list",
        <<Num(0, 0), Num(475, 0)>>,
        FALSE)

\* Faulty variant: the wire values of 'low' and 'medium' are exchanged.
LakeShore330_heater_range_swapped ==
    Control("RANG?",
        <<Fmt("RANG ", "d", "")>>,
        "strict_discrete_set", "dict",
        <<<<Str("off"), Num(0, 0)>>, <<Str("low"), Num(2, 0)>>,
          <<Str("medium"), Num(1, 0)>>, <<Str("high"), Num(3, 0)>>>>,
        TRUE)

LakeShore330_heater_range ==
    Control("RANG?",
        <<Fmt("RANG ", "d", "")>>,
        "strict_discrete_set", "dict",
        <<<<Str("off"), Num(0, 0)>>, <<Str("low"), Num(1, 0)>>,
          <<Str("medium"), Num(2, 0)>>, <<Str("high"), Num(3, 0)>>>>,
        TRUE)

LakeShore330_auto_tune ==
    Control("TUNE?",
        <<Fmt("TUNE ", "d", "")>>,
        "strict_discrete_set", "dict",
        <<<<Str("Manual"), Num(0, 0)>>, <<Str("P"), Num(1, 0)>>, <<Str("PI"), Num(2, 0)>>,
          <<Str("PID"), Num(3, 0)>>, <<Str("Zone"), Num(4, 0)>>>>,
        TRUE)

LakeShore330_gain ==
    Control("GAIN?",
        <<Fmt("GAIN ", "d", "")>>,
        "truncated_range", "list",
        <<Num(0, 0), Num(999, 0)>>,
        FALSE)

LakeShore330_reset ==
    Control("RSET?",
        <<Fmt("RSET ", "d", "")>>,
        "truncated_range", "list",
        <<Num(0, 0), Num(999, 0)>>,
        FALSE)

LakeShore330_rate ==
    Control("RATE?",
        <<Fmt("RATE ", "d", "")>>,
        "truncated_range", "list",
        <<Num(0, 0), Num(999, 0)>>,
        FALSE)

LakeShore330 ==
    [setpoint |-> LakeShore330_setpoint,
     heater_range |-> LakeShore330_heater_range,
     auto_tune |-> LakeShore330_auto_tune,
     gain |-> LakeShore330_gain,
     reset |-> LakeShore330_reset,
     rate |-> LakeShore330_rate]

(***************************************************************************)
(* Keithley2420: the controls the class declares.                       *)
(***************************************************************************)
Keithley2420_config_measurement ==
    Control(":CONF?",
        <<Fmt(":CONF:", "s", "")>>,
        "strict_discrete_set", "dict",
        <<<<Str("Amps"), Str("CURR:DC")>>, <<Str("Volts"), Str("VOLT:DC")>>, <<Str("Ohms"), Str("RES")>>>>,
        TRUE)

\* Faulty variant: the lower bound is 0 instead of 1.
Keithley2420_count_from_zero ==
    Control("COUN?",
        <<Fmt("COUN ", "d", "")>>,
        "truncated_range", "list",
        <<Num(0, 0), Num(2500, 0)>>,
        FALSE)

Keithley2420_count ==
    Control("COUN?",
        <<Fmt("COUN ", "d", "")>>,
        "truncated_range", "list",
        <<Num(1, 0), Num(2500, 0)>>,
        FALSE)

Keithley2420_buffer_points ==
    Control(":TRAC:POIN?",
        <<Fmt(":TRAC:POIN ", "d", "")>>,
        "truncated_range", "list",
        <<Num(1, 0), Num(2500, 0)>>,
        FALSE)

Keithley2420_source_mode ==
    Control(":SOUR:FUNC?",
        <<Fmt(":SOUR:FUNC ", "s", "")>>,
        "strict_discrete_set", "dict",
        <<<<Str("current"), Str("CURR")>>, <<Str("voltage"), Str("VOLT")>>>>,
        TRUE)

Keithley2420_source_enabled ==
    Control("OUTPut?",
        <<Fmt("OUTPut ", "d", "")>>,
        "strict_discrete_set", "dict",
        <<<<Num(1, 0), Num(1, 0)>>, <<Num(0, 0), Num(0, 0)>>>>,
        TRUE)

Keithley2420_source_current ==
    Control(":SOUR:CURR?",
        <<Fmt(":SOUR:CURR:LEV ", "g", "")>>,
        "truncated_range", "list",
        <<Num(-105, -2), Num(105, -2)>>,
        FALSE)

\* Faulty variant: the range is written before auto-range is switched off.
Keithley2420_source_current_range_auto_last ==
    Control(":SOUR:CURR:RANG?",
        <<Fmt(":SOUR:CURR:RANG ", "g", ""), Fmt(":SOUR:CURR:RANG:AUTO 0", "", "")>>,
        "truncated_range", "list",
        <<Num(-105, -2), Num(105, -2)>>,
        FALSE)

Keithley2420_source_current_range ==
    Control(":SOUR:CURR:RANG?",
        <<Fmt(":SOUR:CURR:RANG:AUTO 0", "", ""), Fmt(":SOUR:CURR:RANG ", "g", "")>>,
        "truncated_range", "list",
        <<Num(-105, -2), Num(105, -2)>>,
        FALSE)

Keithley2420_compliance_voltage ==
    Control(":SENS:VOLT:PROT?",
        <<Fmt(":SENS:VOLT:PROT ", "g", "")>>,
        "truncated_range", "list",
        <<Num(-210, 0), Num(210, 0)>>,
        FALSE)

Keithley2420_compliance_current ==
    Control(":SENS:CURR:PROT?",
        <<Fmt(":SENS:CURR:PROT ", "g", "")>>,
        "truncated_range", "list",
        <<Num(1, -8), Num(315, -2)>>,
        FALSE)

Keithley2420_source_voltage ==
    Control(":SOUR:VOLT?",
        <<Fmt(":SOUR:VOLT:LEV ", "g", "")>>,
        "truncated_range", "list",
        <<Num(-1005, -2), Num(1005, -2)>>,
        FALSE)

Keithley2420_source_voltage_range ==
    Control(":SOUR:VOLT:RANG?",
        <<Fmt(":SOUR:VOLT:RANG:AUTO 0", "", ""), Fmt(":SOUR:VOLT:RANG ", "g", "")>>,
        "truncated_range", "list",
        <<Num(-210, 0), Num(210, 0)>>,
        FALSE)

Keithley2420_wires ==
    Control(":SYSTEM:RSENSE?",
        <<Fmt(":SYSTEM:RSENSE ", "d", "")>>,
        "strict_discrete_set", "dict",
        <<<<Num(4, 0), Num(1, 0)>>, <<Num(2, 0), Num(0, 0)>>>>,
        TRUE)

Keithley2420 ==
    [config_measurement |-> Keithley2420_config_measurement,
     count |-> Keithley2420_count,
     buffer_points |-> Keithley2420_buffer_points,
     source_mode |-> Keithley2420_source_mode,
     source_enabled |-> Keithley2420_source_enabled,
     source_current |-> Keithley2420_source_current,
     source_current_range |-> Keithley2420_source_current_range,
     compliance_voltage |-> Keithley2420_compliance_voltage,
     compliance_current |-> Keithley2420_compliance_current,
     source_voltage |-> Keithley2420_source_voltage,
     source_voltage_range |-> Keithley2420_source_voltage_range,
     wires |-> Keithley2420_wires]

(***************************************************************************)
(* LI5640: the controls the class declares.                             *)
(***************************************************************************)
LI5640_phase ==
    Control("PHAS?",
        <<Fmt("PHAS ", "g", "")>>,
        "truncated_range", "list",
        <<Num(-180, 0), Num(17999, -2)>>,
        FALSE)

LI5640_frequency ==
    Control("FREQ?",
        <<Fmt("FREQ ", "g", "")>>,
        "truncated_range", "list",
        <<Num(5, -4), Num(105, 0)>>,
        FALSE)

LI5640_amplitude_50mV ==
    Control("AMPL?",
        <<Fmt("AMPL ", "g", ", 0")>>,
        "truncated_range", "list",
        <<Num(0, -1), Num(50, 0)>>,
        FALSE)

LI5640_amplitude_500mV ==
    Control("AMPL?",
        <<Fmt("AMPL ", "g", ", 1")>>,
        "truncated_range", "list",
        <<Num(0, -1), Num(500, 0)>>,
        FALSE)

LI5640_amplitude_5V ==
    Control("AMPL?",
        <<Fmt("AMPL ", "g", ", 2")>>,
        "truncated_range", "list",
        <<Num(0, -1), Num(5, 0)>>,
        FALSE)

LI5640_harmonic ==
    Control("HARM?",
        <<Fmt("HARM ", "d", "")>>,
        "truncated_range", "list",
        <<Num(1, 0), Num(19999, 0)>>,
        FALSE)

LI5640_source ==
    Control("RSRC?",
        <<Fmt("RSRC ", "d", "")>>,
        "strict_discrete_set", "dict",
        <<<<Str("Ref"), Num(0, 0)>>, <<Str("Int"), Num(1, 0)>>,
          <<Str("Signal"), Num(2, 0)>>>>,
        TRUE)

LI5640_edge ==
    Control("REDG?",
        <<Fmt("REDG ", "d", "")>>,
        "strict_discrete_set", "dict",
        <<<<Str("Sine"), Num(0, 0)>>, <<Str("TTLP"), Num(1, 0)>>,
          <<Str("TTLN"), Num(2, 0)>>>>,
        TRUE)

LI5640_signal ==
    Control("ISRC?",
        <<Fmt("ISRC ", "d", "")>>,
        "strict_discrete_set", "dict",
        <<<<Str("A"), Num(0, 0)>>, <<Str("AB"), Num(1, 0)>>, <<Str("I6"), Num(2, 0)>>,
          <<Str("I8"), Num(3, 0)>>>>,
        TRUE)

LI5640_coupling ==
    Control("ICPL?",
        <<Fmt("ICPL ", "d", "")>>,
        "strict_discrete_set", "dict",
        <<<<Str("AC"), Num(0, 0)>>, <<Str("DC"), Num(1, 0)>>>>,
        TRUE)

LI5640_ground ==
    Control("IGND?",
        <<Fmt("IGND ", "d", "")>>,
        "strict_discrete_set", "dict",
        <<<<Str("Float"), Num(0, 0)>>, <<Str("Ground"), Num(1, 0)>>>>,
        TRUE)

LI5640_voltage_sensitivity ==
    Control("VSEN?",
        <<Fmt("VSEN ", "d", "")>>,
        "strict_discrete_set", "dict",
        <<<<Num(2, -9), Num(0, 0)>>, <<Num(5, -9), Num(1, 0)>>,
          <<Num(1, -8), Num(2, 0)>>, <<Num(2, -8), Num(3, 0)>>,
          <<Num(5, -8), Num(4, 0)>>, <<Num(1, -7), Num(5, 0)>>,
          <<Num(2, -7), Num(6, 0)>>, <<Num(5, -7), Num(7, 0)>>,
          <<Num(1, -6), Num(8, 0)>>, <<Num(2, -6), Num(9, 0)>>,
          <<Num(5, -6), Num(10, 0)>>, <<Num(1, -5), Num(11, 0)>>,
          <<Num(2, -5), Num(12, 0)>>, <<Num(5, -5), Num(13, 0)>>,
          <<Num(1, -4), Num(14, 0)>>, <<Num(2, -4), Num(15, 0)>>,
          <<Num(5, -4), Num(16, 0)>>, <<Num(1, -3), Num(17, 0)>>,
          <<Num(2, -3), Num(18, 0)>>, <<Num(5, -3), Num(19, 0)>>,
          <<Num(1, -2), Num(20, 0)>>, <<Num(2, -2), Num(21, 0)>>,
          <<Num(5, -2), Num(22, 0)>>, <<Num(1, -1), Num(23, 0)>>,
          <<Num(2, -1), Num(24, 0)>>, <<Num(5, -1), Num(25, 0)>>,
          <<Num(1, 0), Num(26, 0)>>>>,
        TRUE)

\* Faulty variant: 300e-3 is given the wire value of 100e-3.
LI5640_time_constant_repeated ==
    Control("TCON?",
        <<Fmt("TCON ", "d", "")>>,
        "strict_discrete_set", "dict",
        <<<<Num(1, -5), Num(0, 0)>>, <<Num(3, -5), Num(1, 0)>>,
          <<Num(1, -4), Num(2, 0)>>, <<Num(3, -4), Num(3, 0)>>,
          <<Num(1, -3), Num(4, 0)>>, <<Num(3, -3), Num(5, 0)>>,
          <<Num(1, -2), Num(6, 0)>>, <<Num(3, -2), Num(7, 0)>>,
          <<Num(1, -1), Num(8, 0)>>, <<Num(3, -1), Num(8, 0)>>,
          <<Num(1, 0), Num(10, 0)>>, <<Num(3, 0), Num(11, 0)>>,
          <<Num(10, 0), Num(12, 0)>>, <<Num(30, 0), Num(13, 0)>>,
          <<Num(100, 0), Num(14, 0)>>, <<Num(300, 0), Num(15, 0)>>,
          <<Num(1, 3), Num(16, 0)>>, <<Num(3, 3), Num(17, 0)>>,
          <<Num(10, 3), Num(18, 0)>>, <<Num(30, 3), Num(19, 0)>>>>,
        TRUE)

LI5640_time_constant ==
    Control("TCON?",
        <<Fmt("TCON ", "d", "")>>,
        "strict_discrete_set", "dict",
        <<<<Num(1, -5), Num(0, 0)>>, <<Num(3, -5), Num(1, 0)>>,
          <<Num(1, -4), Num(2, 0)>>, <<Num(3, -4), Num(3, 0)>>,
          <<Num(1, -3), Num(4, 0)>>, <<Num(3, -3), Num(5, 0)>>,
          <<Num(1, -2), Num(6, 0)>>, <<Num(3, -2), Num(7, 0)>>,
          <<Num(1, -1), Num(8, 0)>>, <<Num(3, -1), Num(9, 0)>>,
          <<Num(1, 0), Num(10, 0)>>, <<Num(3, 0), Num(11, 0)>>,
          <<Num(10, 0), Num(12, 0)>>, <<Num(30, 0), Num(13, 0)>>,
          <<Num(100, 0), Num(14, 0)>>, <<Num(300, 0), Num(15, 0)>>,
          <<Num(1, 3), Num(16, 0)>>, <<Num(3, 3), Num(17, 0)>>,
          <<Num(10, 3), Num(18, 0)>>, <<Num(30, 3), Num(19, 0)>>>>,
        TRUE)

LI5640_synchronous ==
    Control("SYNC?",
        <<Fmt("SYNC ", "d", "")>>,
        "strict_discrete_set", "dict",
        <<<<Str("On"), Num(1, 0)>>, <<Str("Off"), Num(0, 0)>>>>,
        TRUE)

LI5640_slope ==
    Control("SLOP?",
        <<Fmt("SLOP ", "d", "")>>,
        "strict_discrete_set", "dict",
        <<<<Num(6, 0), Num(0, 0)>>, <<Num(12, 0), Num(1, 0)>>,
          <<Num(18, 0), Num(2, 0)>>, <<Num(24, 0), Num(3, 0)>>>>,
        TRUE)

LI5640_data1 ==
    Control("DDEF? 1",
        <<Fmt("DDEF 1, ", "d", "")>>,
        "strict_discrete_set", "dict",
        <<<<Str("X"), Num(0, 0)>>, <<Str("R"), Num(1, 0)>>, <<Str("Noise"), Num(2, 0)>>,
          <<Str("AUX1"), Num(3, 0)>>>>,
        TRUE)

LI5640_data2 ==
    Control("DDEF? 2",
        <<Fmt("DDEF 2, ", "d", "")>>,
        "strict_discrete_set", "dict",
        <<<<Str("Y"), Num(0, 0)>>, <<Str("Theta"), Num(1, 0)>>, <<Str("AUX1"), Num(2, 0)>>,
          <<Str("AUX2"), Num(3, 0)>>>>,
        TRUE)

LI5640_data_type ==
    Control("DTYP?",
        <<Fmt("DTYP ", "d", "")>>,
        "strict_discrete_set", "dict",
        <<<<Str("Data1"), Num(0, 0)>>, <<Str("Data2"), Num(1, 0)>>,
          <<Str("Data1,2"), Num(2, 0)>>>>,
        TRUE)

LI5640_data_size ==
    Control("DSIZ?",
        <<Fmt("DSIZ ", "d", "")>>,
        "strict_discrete_set", "dict",
        <<<<Str("2K"), Num(0, 0)>>, <<Str("4K"), Num(1, 0)>>, <<Str("8K"), Num(2, 0)>>,
          <<Str("16K"), Num(3, 0)>>, <<Str("32K"), Num(4, 0)>>, <<Str("64K"), Num(5, 0)>>>>,
        TRUE)

LI5640_data_number ==
    Control("DNUM?",
        <<Fmt("DNUM ", "d", "")>>,
        "truncated_range", "list",
        <<Num(0, 0), Num(31, 0)>>,
        FALSE)

LI5640_data_sampling_period ==
    Control("DSMP?",
        <<Fmt("DSMP ", "d", "")>>,
        "strict_discrete_set", "dict",
        <<<<Num(625, -7), Num(1, 0)>>, <<Num(125, -6), Num(2, 0)>>,
          <<Num(25, -5), Num(3, 0)>>, <<Num(5, -4), Num(4, 0)>>,
          <<Num(1, -3), Num(5, 0)>>, <<Num(2, -3), Num(6, 0)>>,
          <<Num(5, -3), Num(7, 0)>>, <<Num(1, -2), Num(8, 0)>>,
          <<Num(2, -2), Num(9, 0)>>, <<Num(5, -2), Num(10, 0)>>,
          <<Num(1, -1), Num(11, 0)>>, <<Num(2, -1), Num(12, 0)>>,
          <<Num(5, -1), Num(13, 0)>>, <<Num(1, 0), Num(14, 0)>>,
          <<Num(2, 0), Num(15, 0)>>, <<Num(5, 0), Num(16, 0)>>,
          <<Num(10, 0), Num(17, 0)>>, <<Num(20, 0), Num(18, 0)>>>>,
        TRUE)

LI5640 ==
    [phase |-> LI5640_phase,
     frequency |-> LI5640_frequency,
     amplitude_50mV |-> LI5640_amplitude_50mV,
     amplitude_500mV |-> LI5640_amplitude_500mV,
     amplitude_5V |-> LI5640_amplitude_5V,
     harmonic |-> LI5640_harmonic,
     source |-> LI5640_source,
     edge |-> LI5640_edge,
     signal |-> LI5640_signal,
     coupling |-> LI5640_coupling,
     ground |-> LI5640_ground,
     voltage_sensitivity |-> LI5640_voltage_sensitivity,
     time_constant |-> LI5640_time_constant,
     synchronous |-> LI5640_synchronous,
     slope |-> LI5640_slope,
     data1 |-> LI5640_data1,
     data2 |-> LI5640_data2,
     data_type |-> LI5640_data_type,
     data_size |-> LI5640_data_size,
     data_number |-> LI5640_data_number,
     data_sampling_period |-> LI5640_data_sampling_period]

(***************************************************************************)
(* TTi303: the controls the class declares.                             *)
(***************************************************************************)
TTi303_master_voltage ==
    Control("V1?",
        <<Fmt("V1 ", "g", "")>>,
        "truncated_range", "list",
        <<Num(0, 0), Num(30, 0)>>,
        FALSE)

TTi303_master_current ==
    Control("I1?",
        <<Fmt("I1 ", "g", "")>>,
        "truncated_range", "list",
        <<Num(0, 0), Num(3030, 0)>>,
        FALSE)

TTi303_slave_voltage ==
    Control("V2?",
        <<Fmt("V2 ", "g", "")>>,
        "truncated_range", "list",
        <<Num(0, 0), Num(30, 0)>>,
        FALSE)

TTi303_slave_current ==
    Control("I2?",
        <<Fmt("I2 ", "g", "")>>,
        "truncated_range", "list",
        <<Num(0, 0), Num(3030, 0)>>,
        FALSE)

TTi303 ==
    [master_voltage |-> TTi303_master_voltage,
     master_current |-> TTi303_master_current,
     slave_voltage |-> TTi303_slave_voltage,
     slave_current |-> TTi303_slave_current]

(***************************************************************************)
(* TDS380: the controls the class declares.                             *)
(***************************************************************************)
TDS380_source ==
    Control("DAT:SOU?",
        <<Fmt("DAT:SOU ", "s", "")>>,
        "strict_discrete_set", "dict",
        <<<<Str("Channel1"), Str("CH1")>>, <<Str("Channel2"), Str("CH2")>>,
          <<Str("Reference2"), Str("REF2")>>, <<Str("Math1"), Str("MATH1")>>>>,
        TRUE)

TDS380_data_format ==
    Control("DAT:ENC?",
        <<Fmt("DAT:ENC ", "s", "")>>,
        "strict_discrete_set", "dict",
        <<<<Str("ASCII"), Str("ASCI")>>, <<Str("Ribinary"), Str("RIB")>>, <<Str("Rpbinary"), Str("RPB")>>,
          <<Str("Sribinary"), Str("SRI")>>, <<Str("Srpbinary"), Str("SRP")>>>>,
        TRUE)

TDS380_data_width ==
    Control("DAT:WID?",
        <<Fmt("DAT:WID ", "d", "")>>,
        "none", "list",
        <<Num(1, 0), Num(2, 0)>>,
        FALSE)

TDS380_data_start ==
    Control("DAT:STAR?",
        <<Fmt("DAT:STAR ", "d", "")>>,
        "truncated_range", "list",
        <<Num(1, 0), Num(500, 0)>>,
        FALSE)

\* Faulty variant: the last point may be anywhere in the 1000-point record.
TDS380_data_stop_whole_record ==
    Control("DAT:STOP?",
        <<Fmt("DAT:STOP ", "d", "")>>,
        "truncated_range", "list",
        <<Num(1, 0), Num(1000, 0)>>,
        FALSE)

TDS380_data_stop ==
    Control("DAT:STOP?",
        <<Fmt("DAT:STOP ", "d", "")>>,
        "truncated_range", "list",
        <<Num(501, 0), Num(1000, 0)>>,
        FALSE)

TDS380 ==
    [source |-> TDS380_source,
     data_format |-> TDS380_data_format,
     data_width |-> TDS380_data_width,
     data_start |-> TDS380_data_start,
     data_stop |-> TDS380_data_stop]

(***************************************************************************)
(* Property access (Instrument.control): validation, value map, write      *)
(* format on set; query, parse and reverse map on get.                     *)
(***************************************************************************)
Classes == {"LakeShore330", "Keithley2420", "LI5640", "TTi303", "TDS380"}

Table(cls) ==
    CASE cls = "LakeShore330" -> LakeShore330
      [] cls = "Keithley2420" -> Keithley2420
      [] cls = "LI5640" -> LI5640
      [] cls = "TTi303" -> TTi303
      [] cls = "TDS380" -> TDS380

Entries(d) == 1..Len(d.values)

\* what "value in values" ranges over: the keys of a dict, the items of a list
Members(d) ==
    IF d.kind = "dict" THEN {d.values[i][1] : i \in Entries(d)}
    ELSE {d.values[i] : i \in Entries(d)}

Highest(S) == CHOOSE i \in S : \A j \in S : j <= i
First(S) == CHOOSE i \in S : \A j \in S : i <= j

\* values[value]: a repeated key of a dict literal keeps its last entry
Mapped(d, key) ==
    d.values[Highest({i \in Entries(d) : d.values[i][1] = key})][2]

\* the first key whose wire value equals the value read
Unmapped(d, token) ==
    d.values[First({i \in Entries(d) : d.values[i][2] = token})][1]

\* min(values) and max(values) of a range
Lower(values) == IF Less(values[2], values[1]) THEN values[2] ELSE values[1]
Upper(values) == IF Less(values[1], values[2]) THEN values[2] ELSE values[1]

\* range truncation: clamp into [min, max]
truncated_range(value, values) ==
    IF Less(value, Lower(values)) THEN Lower(values)
    ELSE IF Less(Upper(values), value) THEN Upper(values)
    ELSE value

\* discrete set: the value must be one of the enumerated keys
strict_discrete_set(value, d) == value \in Members(d)

\* the set command with the value substituted
Compose(set, v) ==
    [i \in 1..Len(set) |->
        [lead |-> set[i].lead, conv |-> set[i].conv,
         arg |-> Format(set[i].conv, v), trail |-> set[i].trail]]

ControlSet(d, value) ==
    IF d.validator = "strict_discrete_set" /\ ~strict_discrete_set(value, d)
    THEN Call(<<>>, RetRaise("InvalidValue"))
    ELSE LET checked == IF d.validator = "truncated_range"
                        THEN truncated_range(value, d.values) ELSE value
             wire == IF d.map_values THEN Mapped(d, checked) ELSE checked
         IN  Call(<<Write(Compose(d.set, wire), "ok")>>, NoResult)

\* resource query of a property: the instrument's reply token
Ask(cmd, reply) == Ev("query", <<cmd>>, <<reply>>, 0, "ok")

ControlGet(d, reply) ==
    IF d.map_values THEN Call(<<Ask(d.get, reply)>>, RetValue(Unmapped(d, reply)))
    ELSE Call(<<Ask(d.get, reply)>>, RetValue(reply))

\* the value a written command carries
Carried(cmds) ==
    cmds[Highest({i \in 1..Len(cmds) : cmds[i].conv # ""})].arg

\* the transfer window after a written command: DAT:STAR and DAT:STOP set
\* its first and last point
Stored(cmds, w) ==
    IF cmds[1].lead = "DAT:STAR " THEN [w EXCEPT !.start = Carried(cmds)]
    ELSE IF cmds[1].lead = "DAT:STOP " THEN [w EXCEPT !.stop = Carried(cmds)]
    ELSE w

\* values a caller may pass: every enumerated value and one that is not, or
\* values below, at, inside and above the bounds
Candidates(d) ==
    IF d.kind = "dict"
    THEN Members(d) \cup
         (IF IsText(d.values[1][1]) THEN {Str("bogus")} ELSE {Num(7, 0)})
    ELSE {Plus(Lower(d.values), Num(-1, 0)), Lower(d.values),
          Plus(Lower(d.values), Num(5, -1)), Upper(d.values),
          Plus(Upper(d.values), Num(1, 0))}

\* what the instrument answers a property query with: the setting written
\* last when it is this property's, else one of the settings it can hold
\* (the first or last of the enumerated ones, or a bound of the range)
Replies(name, d) ==
    IF held.name = name THEN {held.text}
    ELSE IF d.map_values
         THEN {Format(d.set[Len(d.set)].conv, d.values[i][2]) :
                   i \in {1, Len(d.values)}}
    ELSE {Format(d.set[Len(d.set)].conv, Lower(d.values)),
          Format(d.set[Len(d.set)].conv, Upper(d.values))}

SetProperty ==
    /\ drv \in Classes
    /\ \E name \in DOMAIN Table(drv) :
         \E value \in Candidates(Table(drv)[name]) :
            LET c == ControlSet(Table(drv)[name], value)
            IN  /\ op' = "set"
                /\ arg' = [name |-> name, value |-> value]
                /\ io' = c.io
                /\ ret' = c.ret
                /\ held' = IF Len(c.io) = 0 THEN held
                           ELSE [name |-> name, key |-> value,
                                 text |-> Carried(c.io[1].cmds)]
                /\ window' = IF Len(c.io) = 0 THEN window
                             ELSE Stored(c.io[1].cmds, window)
    /\ UNCHANGED <<drv, cond, trace, outp, armed, seq, pre, pc>>

GetProperty ==
    /\ drv \in Classes
    /\ \E name \in DOMAIN Table(drv) :
         \E reply \in Replies(name, Table(drv)[name]) :
            LET c == ControlGet(Table(drv)[name], reply)
            IN  /\ op' = "get"
                /\ arg' = [name |-> name, value |-> Str("none")]
                /\ io' = c.io
                /\ ret' = c.ret
    /\ UNCHANGED <<drv, cond, trace, outp, armed, seq, pre, held, window, pc>>

InitProps ==
    /\ drv \in Classes
    /\ cond = 0
    /\ trace = <<>>
    /\ outp = FALSE
    /\ armed = FALSE
    /\ op = "none"
    /\ io = <<>>
    /\ ret = NoResult
    /\ seq = "Idle"
    /\ pre = [seq |-> "Idle", held |-> FALSE]
    /\ arg = NoAccess
    /\ held = NoSetting
    /\ window = NoWindow
    /\ pc = "none"

NextProps ==
    \/ SetProperty
    \/ GetProperty

SpecProps == InitProps /\ [][NextProps]_vars

(***************************************************************************)
(* Keithley2420: the methods of the class.  A command of a write is the    *)
(* record of its text and of the value substituted into it.                *)
(***************************************************************************)
\* largest value of the 8-bit status byte (*STB?)
MaxStb == 255
BufferFull == 65

\* number of power line cycles a caller passes (1 is the default)
Nplcs == {Num(1, 0), Num(1, -2), Num(12345678, -7)}
\* upper limits a caller passes (the first of each is the default)
CurrentLimits == {Num(105, -6), Num(1, 0)}
VoltageLimits == {Num(21, 0), Num(210, 0)}
ResistanceLimits == {Num(21, 4), Num(1, 3)}

\* a command without a conversion, and one with its value substituted
Plain(text) == [lead |-> text, conv |-> "", arg |-> Str(""), trail |-> ""]
Filled(lead, conv, v) ==
    [lead |-> lead, conv |-> conv, arg |-> Format(conv, v), trail |-> ""]

\* self.<name> = value: an attribute of the driver object, no transport call
SetAttr(name, value) == Ev("setattr", <<name>>, <<value>>, 0, "ok")
\* self.check_errors()
CheckErrors == Ev("check_errors", <<>>, <<>>, 0, "ok")

Keithley2420_measure_current(nplc, current, auto_range) ==
    LET w == Write(<<Plain(":SENS:FUNC 'CURR'"),
                     Filled(":SENS:CURR:NPLC ", "f", nplc),
                     Plain(":FORM:ELEM CURR")>>, "ok")
    IN  IF auto_range
        THEN Call(<<w, Write(<<Plain(":SENS:CURR:RANG:AUTO 1")>>, "ok"),
                    CheckErrors>>, NoResult)
        ELSE Call(<<w, SetAttr("current_range", current), CheckErrors>>,
                  NoResult)

Keithley2420_measure_voltage(nplc, voltage, auto_range) ==
    LET w == Write(<<Plain(":SENS:FUNC 'VOLT'"),
                     Filled(":SENS:VOLT:NPLC ", "f", nplc),
                     Plain(":FORM:ELEM VOLT")>>, "ok")
    IN  IF auto_range
        THEN Call(<<w, Write(<<Plain(":SENS:VOLT:RANG:AUTO 1")>>, "ok"),
                    CheckErrors>>, NoResult)
        ELSE Call(<<w, SetAttr("voltage_range", voltage), CheckErrors>>,
                  NoResult)

Keithley2420_measure_resistance(nplc, resistance, auto_range) ==
    LET w == Write(<<Plain(":SENS:FUNC 'RES'"),
                     Plain(":SENS:RES:MODE MAN"),
                     Filled(":SENS:RES:NPLC ", "f", nplc),
                     Plain(":FORM:ELEM RES")>>, "ok")
    IN  IF auto_range
        THEN Call(<<w, Write(<<Plain(":SENS:RES:RANG:AUTO 1")>>, "ok"),
                    CheckErrors>>, NoResult)
        ELSE Call(<<w, SetAttr("resistance_range", resistance), CheckErrors>>,
                  NoResult)

\* Faulty variant: the byte is tested for the bits of 65 instead of compared.
Keithley2420_is_buffer_full_bits(stb) ==
    LET q == Ask("*STB?", DecimalText(stb))
        status_bit == ParseInt(q.reply[1])
    IN  Call(<<q>>, RetBool((status_bit \div 64) % 2 = 1 /\ status_bit % 2 = 1))

\* stb: the status byte the instrument answers *STB? with
Keithley2420_is_buffer_full(stb) ==
    LET q == Ask("*STB?", DecimalText(stb))
        status_bit == ParseInt(q.reply[1])
    IN  Call(<<q>>, RetBool(status_bit = BufferFull))

\* a method call of the Keithley2420 instance
Method(name, args, c) ==
    /\ op' = name
    /\ arg' = [name |-> name, value |-> args]
    /\ io' = c.io
    /\ ret' = c.ret
    /\ UNCHANGED <<drv, cond, trace, outp, armed, seq, pre, held, window, pc>>

Args(nplc, limit, auto_range) ==
    [nplc |-> nplc, limit |-> limit, auto_range |-> auto_range]

MeasureCurrent ==
    /\ drv = "Keithley2420"
    /\ \E nplc \in Nplcs, current \in CurrentLimits, auto_range \in BOOLEAN :
          Method("measure_current", Args(nplc, current, auto_range),
                 Keithley2420_measure_current(nplc, current, auto_range))

MeasureVoltage ==
    /\ drv = "Keithley2420"
    /\ \E nplc \in Nplcs, voltage \in VoltageLimits, auto_range \in BOOLEAN :
          Method("measure_voltage", Args(nplc, voltage, auto_range),
                 Keithley2420_measure_voltage(nplc, voltage, auto_range))

MeasureResistance ==
    /\ drv = "Keithley2420"
    /\ \E nplc \in Nplcs, resistance \in ResistanceLimits,
          auto_range \in BOOLEAN :
          Method("measure_resistance", Args(nplc, resistance, auto_range),
                 Keithley2420_measure_resistance(nplc, resistance, auto_range))

IsBufferFull ==
    /\ drv = "Keithley2420"
    /\ \E stb \in 0..MaxStb :
          Method("is_buffer_full", Str("none"),
                 Keithley2420_is_buffer_full(stb))

InitMeter ==
    /\ drv = "Keithley2420"
    /\ cond = 0
    /\ trace = <<>>
    /\ outp = FALSE
    /\ armed = FALSE
    /\ op = "none"
    /\ io = <<>>
    /\ ret = NoResult
    /\ seq = "Idle"
    /\ pre = [seq |-> "Idle", held |-> FALSE]
    /\ arg = NoAccess
    /\ held = NoSetting
    /\ window = NoWindow
    /\ pc = "none"

NextMeter ==
    \/ MeasureCurrent
    \/ MeasureVoltage
    \/ MeasureResistance
    \/ IsBufferFull

SpecMeter == InitMeter /\ [][NextMeter]_vars

(***************************************************************************)
(* Properties.                                                             *)
(***************************************************************************)
IsQuery(e) == e.kind = "query" \/ e.kind = "query_ascii_values"
Writes == {i \in 1..Len(io) : io[i].kind = "write"}

\* C1: check_status() returns False for every register value below the
\* model's threshold and True for every value at or above it: 896 for
\* Keithley2182A, 768 for Keithley6430.
C1_CheckStatusThreshold ==
    (op = "check_status" /\ ret.tag # "raise") =>
        /\ ret.tag = "bool"
        /\ drv = "Keithley2182A" => (ret.b <=> cond >= 896)
        /\ drv = "Keithley6430" => (ret.b <=> cond >= 768)

C1_Witness ==
    /\ op = "check_status"
    /\ \/ drv = "Keithley2182A" /\ cond = 895 /\ ret = RetBool(FALSE)
       \/ drv = "Keithley6430" /\ cond = 768 /\ ret = RetBool(TRUE)

\* the numbers a successful Keithley2182A.get_buffer() received
Got2182A == AsciiValues(io[1].reply)
Read2182A ==
    op = "get_buffer" /\ drv = "Keithley2182A" /\ ret.tag # "raise"

\* C2 as stated: Keithley2182A.get_buffer() returns the arithmetic mean of
\* the numeric reply of its TRAC:DATA? query, for every non-empty reply.
C2_ReturnsMean ==
    (Read2182A /\ Len(Got2182A) > 0) =>
        /\ ret.tag = "number"
        /\ ret.num * Len(Got2182A) = Sum(Got2182A) * ret.den

\* C2 as amended: Keithley2182A.get_buffer() returns the numeric reply
\* sequence of its single TRAC:DATA? query unchanged, in order (the reply
\* [1, 2, 3] yields [1, 2, 3], not 2).
C2_ReturnsReadings ==
    Read2182A =>
        /\ Len(io) = 1
        /\ io[1].kind = "query_ascii_values"
        /\ io[1].cmds = <<"TRAC:DATA?">>
        /\ ret.tag = "list"
        /\ ret.items = Got2182A
        /\ io[1].reply = <<<<1>>, <<2>>, <<3>>>> => ret.items = <<1, 2, 3>>

C2_Witness == Read2182A /\ ret.items = <<1, 2, 3>>

\* C3: Keithley2182A.trigger() performs exactly one write carrying the six
\* commands in order (clear, function, size, control, feed, initiation),
\* returns only after the settle delay that follows the write, and performs
\* no query.
C3_TriggerSequence ==
    (op = "trigger" /\ drv = "Keithley2182A") =>
        /\ Writes = {1}
        /\ io[1].cmds = <<":TRAC:CLE", ":SENS:FUNC 'VOLT'", ":TRAC:POIN 100",
                          ":TRAC:FEED:CONT NEXT", ":TRAC:FEED SENS",
                          ":INIT:CONT 1">>
        /\ \A i \in 1..Len(io) : ~IsQuery(io[i])
        /\ ret.tag = "none" =>
              /\ Len(io) = 2
              /\ io[1].fault = "none"
              /\ io[2].kind = "sleep"
              /\ io[2].secs = 1

C3_Witness ==
    /\ op = "trigger"
    /\ drv = "Keithley2182A"
    /\ ret.tag = "none"
    /\ armed

\* the descriptor of the property accessed last
Accessed == Table(drv)[arg.name]
Discrete(d) == d.validator = "strict_discrete_set"
Ranged(d) == d.validator = "truncated_range"
OneCommand(lead, conv, v) ==
    <<Write(<<[lead |-> lead, conv |-> conv, arg |-> v, trail |-> ""]>>, "ok")>>
SetOf(cls, name) == op = "set" /\ drv = cls /\ arg.name = name
Rejected(events, result) ==
    events = <<>> /\ result.tag = "raise" /\ result.exc = "InvalidValue"

\* C4: setting a discrete-set property to a key of its mapping sends exactly
\* one write containing the mapped wire token; setting it to a value that
\* is not a key raises InvalidValue, sends nothing and leaves the
\* instrument as it was.
C4_DiscreteSet ==
    /\ [](op = "set" =>
        /\ Discrete(Accessed) =>
              IF \E i \in Entries(Accessed) : Accessed.values[i][1] = arg.value
              THEN /\ Len(io) = 1
                   /\ io[1].kind = "write"
                   /\ Len(io[1].cmds) = 1
                   /\ \E i \in Entries(Accessed) :
                         /\ Accessed.values[i][1] = arg.value
                         /\ io[1].cmds[1].arg = Accessed.values[i][2]
                   /\ ret.tag = "none"
              ELSE Rejected(io, ret)
        /\ SetOf("LakeShore330", "heater_range") =>
              /\ arg.value = Str("low") =>
                    io = OneCommand("RANG ", "d", Num(1, 0))
              /\ arg.value = Str("high") =>
                    io = OneCommand("RANG ", "d", Num(3, 0))
              /\ arg.value = Str("bogus") => Rejected(io, ret)
        /\ SetOf("Keithley2420", "source_mode") =>
              /\ arg.value = Str("voltage") =>
                    io = OneCommand(":SOUR:FUNC ", "s", Str("VOLT"))
              /\ arg.value = Str("bogus") => Rejected(io, ret)
        /\ SetOf("TDS380", "source") =>
              /\ arg.value = Str("Channel1") =>
                    io = OneCommand("DAT:SOU ", "s", Str("CH1"))
              /\ arg.value = Str("bogus") => Rejected(io, ret))
    /\ [][(op' = "set" /\ ret'.tag = "raise") => UNCHANGED held]_vars

\* a rejected set that left an earlier setting in the instrument
C4_Witness ==
    /\ op = "set"
    /\ drv = "LakeShore330"
    /\ arg = [name |-> "heater_range", value |-> Str("bogus")]
    /\ Rejected(io, ret)
    /\ held.name = "heater_range"
    /\ held.text = Num(1, 0)

\* the number the write of the last set carries, and the clamped input
Sent == Carried(io[1].cmds)
Clamped ==
    IF Less(arg.value, Accessed.values[1]) THEN Accessed.values[1]
    ELSE IF Less(Accessed.values[2], arg.value) THEN Accessed.values[2]
    ELSE arg.value
RangeSet == op = "set" /\ Ranged(Accessed)

\* C5 as stated: a set of a range-truncated property never errors and
\* sends min when v < min, max when v > max and v itself otherwise; the
\* value sent is inside [min, max].
C5_SendsValue ==
    RangeSet =>
        /\ ret.tag = "none"
        /\ Len(io) = 1
        /\ io[1].kind = "write"
        /\ Sent = Clamped
        /\ ~Less(Sent, Accessed.values[1])
        /\ ~Less(Accessed.values[2], Sent)

\* C5 as amended: a set of a range-truncated property never errors and
\* sends min when v < min, max when v > max, and otherwise v as the write
\* format converts it (%d: its integer part, so 1.5 is sent as 1; %g: six
\* significant digits); the value sent is inside [min, max].
C5_SendsConverted ==
    /\ RangeSet =>
        /\ ret.tag = "none"
        /\ Len(io) = 1
        /\ io[1].kind = "write"
        /\ Sent = Format(Accessed.set[Len(Accessed.set)].conv, Clamped)
        /\ (Less(arg.value, Accessed.values[1]) => Sent = Accessed.values[1])
        /\ (Less(Accessed.values[2], arg.value) => Sent = Accessed.values[2])
        /\ ((NumDigits(Abs(arg.value.m)) <= 6
              /\ (arg.value.e >= 0 \/ Accessed.set[Len(Accessed.set)].conv = "g"))
            => Sent = Clamped)
        /\ ~Less(Sent, Accessed.values[1])
        /\ ~Less(Accessed.values[2], Sent)
    /\ SetOf("Keithley2420", "count") =>
        /\ Ranged(Accessed)
        /\ arg.value = Num(0, 0) => Sent = Num(1, 0)
        /\ arg.value = Num(15, -1) => Sent = Num(1, 0)
        /\ arg.value = Num(2500, 0) => Sent = Num(2500, 0)
        /\ arg.value = Num(2501, 0) => Sent = Num(2500, 0)
    /\ SetOf("LakeShore330", "setpoint") =>
        /\ Ranged(Accessed)
        /\ arg.value = Num(-1, 0) => Sent = Num(0, 0)
        /\ arg.value = Num(5, -1) => Sent = Num(5, -1)
        /\ arg.value = Num(476, 0) => Sent = Num(475, 0)
    /\ SetOf("TTi303", "master_voltage") =>
        /\ Ranged(Accessed)
        /\ arg.value = Num(-1, 0) => Sent = Num(0, 0)
        /\ arg.value = Num(5, -1) => Sent = Num(5, -1)
        /\ arg.value = Num(31, 0) => Sent = Num(30, 0)

\* count = 1.5 is inside [1, 2500] and goes out as COUN 1
C5_Witness ==
    /\ SetOf("Keithley2420", "count")
    /\ arg.value = Num(15, -1)
    /\ io = OneCommand("COUN ", "d", Num(1, 0))

\* the mapped discrete-set properties of a class
MappedNames(cls) ==
    {n \in DOMAIN Table(cls) : Discrete(Table(cls)[n]) /\ Table(cls)[n].map_values}

\* C6: for every mapped discrete-set property and every key x of its map,
\* set(x) followed by get() against an instrument that echoes the wire
\* token written last returns x; no two keys of a map share a wire value.
C6_RoundTrip ==
    /\ (op = "get" /\ held.name = arg.name /\ arg.name \in MappedNames(drv)) =>
          /\ io = <<Ask(Accessed.get, held.text)>>
          /\ ret.tag = "value"
          /\ ret.val = held.key
    /\ \A n \in MappedNames(drv) :
          \A i, j \in Entries(Table(drv)[n]) :
              Table(drv)[n].values[i][2] = Table(drv)[n].values[j][2] => i = j

C6_Witness ==
    /\ op = "get"
    /\ drv = "LI5640"
    /\ arg.name = "time_constant"
    /\ held.name = "time_constant"
    /\ held.key = Num(300, -3)
    /\ ret.val = Num(300, -3)

\* C7: nothing guards get_buffer(): in both drivers it is enabled in every
\* state and always issues its TRAC:DATA? bulk query, whatever the status
\* register holds.
C7_GetBufferUnguarded ==
    /\ drv = "Keithley2182A" => ENABLED GetBuffer2182A
    /\ drv = "Keithley6430" => ENABLED GetBuffer6430
    /\ op = "get_buffer" =>
          /\ Len(io) = 1
          /\ io[1].kind = "query_ascii_values"
          /\ io[1].cmds = <<"TRAC:DATA?">>

\* the buffer was read while armed with the register below the threshold
C7_Witness ==
    /\ op = "get_buffer"
    /\ ret.tag = "number"
    /\ drv = "Keithley6430"
    /\ pre.seq = "Armed"
    /\ cond < 768

TriggerStep == Trigger2182A \/ Trigger6430

\* C8: trigger() is enabled from every sequencer state; its write begins
\* with :TRAC:CLE, so a trigger that returns leaves the trace buffer empty
\* and the sequencer Armed.
C8_TriggerRestarts ==
    /\ [](ENABLED TriggerStep)
    /\ [][(TriggerStep /\ ret'.tag = "none") =>
            /\ Head(io'[1].cmds) = ":TRAC:CLE"
            /\ trace' = <<>>
            /\ seq' = "Armed"]_vars

\* a trigger after a finished cycle whose readings were still in the buffer
C8_Witness ==
    /\ op = "trigger"
    /\ ret.tag = "none"
    /\ pre.seq = "Done"
    /\ pre.held
    /\ trace = <<>>
    /\ seq = "Armed"

CheckStatusStep == CheckStatus2182A \/ CheckStatus6430

\* C9: a check_status() call performs exactly one :STAT:MEAS:COND? query
\* and nothing else, leaves the trace buffer, the output and the sequencer
\* position unchanged, and its result is decided by that query's reply
\* alone.
C9_CheckStatusFrame ==
    [][CheckStatusStep =>
        /\ Len(io') = 1
        /\ io'[1].kind = "query"
        /\ io'[1].cmds = <<":STAT:MEAS:COND?">>
        /\ UNCHANGED <<trace, outp, armed, seq, cond>>
        /\ ret'.tag = "bool" =>
              (ret'.b <=> ParseInt(io'[1].reply[1]) >=
                            (IF drv = "Keithley2182A" THEN 896 ELSE 768))]_vars

C9_Witness ==
    /\ op = "check_status"
    /\ ret = RetBool(FALSE)
    /\ seq = "Armed"
    /\ trace # <<>>
    /\ cond = 767

\* C10: a transport fault during trigger(), check_status() or get_buffer()
\* ends the call with that fault: no further transport call, no value, and
\* no settle delay after a failed write.
C10_FaultPropagates ==
    op \in {"trigger", "check_status", "get_buffer"} =>
        \A i \in 1..Len(io) :
            io[i].fault # "none" =>
                /\ i = Len(io)
                /\ ret = RetRaise(io[i].fault)
                /\ \A j \in 1..Len(io) : io[j].kind # "sleep"

C10_Witness ==
    /\ op = "trigger"
    /\ Len(io) = 1
    /\ io[1].fault = "timeout"
    /\ ret = RetRaise("timeout")

\* C11: Keithley2420.is_buffer_full() performs exactly one *STB? query and
\* returns True exactly when the status byte read is 65; every other byte
\* (67 and 193, which have further bits set, and bytes below 65) gives False.
C11_BufferFullExactly65 ==
    op = "is_buffer_full" =>
        /\ Len(io) = 1
        /\ io[1].kind = "query"
        /\ io[1].cmds = <<"*STB?">>
        /\ ret.tag = "bool"
        /\ ret.b <=> io[1].reply = <<<<6, 5>>>>
        /\ io[1].reply \in {<<<<6, 7>>>>, <<<<1, 9, 3>>>>, <<<<6, 4>>>>, <<<<0>>>>}
              => ~ret.b

\* the byte 67 (65 with a further bit set) reads as not full
C11_Witness ==
    /\ op = "is_buffer_full"
    /\ io[1].reply = <<<<6, 7>>>>
    /\ ret = RetBool(FALSE)

\* the range commands of the three measurement functions
RangeLead ==
    [measure_current |-> ":SENS:CURR:RANG",
     measure_voltage |-> ":SENS:VOLT:RANG",
     measure_resistance |-> ":SENS:RES:RANG"]
Measures == DOMAIN RangeLead
\* the event carries a command that starts with the text
Carries(e, text, v) ==
    /\ e.kind = "write"
    /\ \E i \in 1..Len(e.cmds) :
          /\ e.cmds[i].lead \in {text, text \o " "}
          /\ e.cmds[i].conv # ""
          /\ e.cmds[i].arg = v

\* C12: measure_current, measure_voltage and measure_resistance send the
\* function/NPLC configuration, then RANG:AUTO 1 of the function when
\* auto_range is True and otherwise a range command carrying the given
\* limit; check_errors() runs after those writes.
C12_RangeCommand ==
    op \in Measures =>
        /\ Len(io) = 3
        /\ io[1].kind = "write"
        /\ \E i \in 1..Len(io[1].cmds) :
              /\ io[1].cmds[i].conv = "f"
              /\ io[1].cmds[i].arg = FormatF(arg.value.nplc)
        /\ arg.value.auto_range =>
              io[2] = Write(<<Plain(RangeLead[op] \o ":AUTO 1")>>, "ok")
        /\ ~arg.value.auto_range =>
              Carries(io[2], RangeLead[op], FormatG(arg.value.limit))
        /\ io[3].kind = "check_errors"

\* the source range properties and the texts of their two commands
SourceRanges ==
    [source_current_range |->
        [auto |-> ":SOUR:CURR:RANG:AUTO 0", range |-> ":SOUR:CURR:RANG ",
         low |-> Num(-105, -2), high |-> Num(105, -2)],
     source_voltage_range |->
        [auto |-> ":SOUR:VOLT:RANG:AUTO 0", range |-> ":SOUR:VOLT:RANG ",
         low |-> Num(-210, 0), high |-> Num(210, 0)]]
SourceRangeSet ==
    op = "set" /\ drv = "Keithley2420" /\ arg.name \in DOMAIN SourceRanges

\* C13: every set of Keithley2420.source_current_range or
\* source_voltage_range sends a single write in which the RANG:AUTO 0
\* command precedes the RANG <value> command, <value> being the input
\* clamped into [-1.05, 1.05] (current) or [-210, 210] (voltage); the
\* range value is never sent without auto-range switched off before it.
C13_RangeDisablesAuto ==
    SourceRangeSet =>
        LET r == SourceRanges[arg.name]
            cmds == io[1].cmds
            sent == {j \in 1..Len(cmds) : cmds[j].lead = r.range}
        IN  /\ Len(io) = 1
            /\ io[1].kind = "write"
            /\ sent # {}
            /\ \A j \in sent :
                  /\ \E i \in 1..(j - 1) :
                        cmds[i].lead = r.auto /\ cmds[i].conv = ""
                  /\ cmds[j].conv = "g"
                  /\ ~Less(cmds[j].arg, r.low)
                  /\ ~Less(r.high, cmds[j].arg)
                  /\ Less(arg.value, r.low) => cmds[j].arg = r.low
                  /\ Less(r.high, arg.value) => cmds[j].arg = r.high
                  /\ (~Less(arg.value, r.low) /\ ~Less(r.high, arg.value)) =>
                        cmds[j].arg = arg.value

\* 211 V is clamped to 210 V and sent after auto-range is switched off
C13_Witness ==
    /\ SetOf("Keithley2420", "source_voltage_range")
    /\ arg.value = Num(211, 0)
    /\ io[1].cmds[1].lead = ":SOUR:VOLT:RANG:AUTO 0"
    /\ io[1].cmds[2].arg = Num(210, 0)

\* command a comes before command b in a compound write
Precedes(cmds, a, b) ==
    \E i, j \in 1..Len(cmds) : i < j /\ cmds[i] = a /\ cmds[j] = b
Trigger6430Done == op = "trigger" /\ drv = "Keithley6430"

\* C14 as stated: Keithley6430.trigger() sends one compound write with the
\* trace clear first, then the measurement function, the buffer size
\* :TRAC:POIN 100, :TRAC:FEED:CONT NEXT and then :TRAC:FEED SENS, with
\* :OUTP ON before :INIT, which is last; the settle delay follows the write.
C14_TriggerOrder ==
    Trigger6430Done =>
        LET cmds == io[1].cmds
        IN  /\ Writes = {1}
            /\ cmds[1] = ":TRAC:CLE"
            /\ Precedes(cmds, ":TRAC:CLE", ":SENS:FUNC 'CURR'")
            /\ Precedes(cmds, ":SENS:FUNC 'CURR'", ":TRAC:POIN 100")
            /\ Precedes(cmds, ":TRAC:POIN 100", ":TRAC:FEED:CONT NEXT")
            /\ Precedes(cmds, ":TRAC:FEED:CONT NEXT", ":TRAC:FEED SENS")
            /\ Precedes(cmds, ":OUTP ON", ":INIT")
            /\ cmds[Len(cmds)] = ":INIT"
            /\ ret.tag = "none" =>
                  Len(io) = 2 /\ io[2].kind = "sleep" /\ io[2].secs = 1

\* C14 as amended: as stated, except that the feed source :TRAC:FEED SENS
\* comes before :TRAC:FEED:CONT NEXT.
C14_TriggerOrderFeedFirst ==
    Trigger6430Done =>
        LET cmds == io[1].cmds
        IN  /\ Writes = {1}
            /\ cmds[1] = ":TRAC:CLE"
            /\ Precedes(cmds, ":TRAC:CLE", ":SENS:FUNC 'CURR'")
            /\ Precedes(cmds, ":SENS:FUNC 'CURR'", ":TRAC:POIN 100")
            /\ Precedes(cmds, ":TRAC:POIN 100", ":TRAC:FEED SENS")
            /\ Precedes(cmds, ":TRAC:FEED SENS", ":TRAC:FEED:CONT NEXT")
            /\ ~Precedes(cmds, ":TRAC:FEED:CONT NEXT", ":TRAC:FEED SENS")
            /\ Precedes(cmds, ":OUTP ON", ":INIT")
            /\ ~Precedes(cmds, ":INIT", ":OUTP ON")
            /\ cmds[Len(cmds)] = ":INIT"
            /\ ret.tag = "none" =>
                  Len(io) = 2 /\ io[2].kind = "sleep" /\ io[2].secs = 1

C14_Witness ==
    /\ Trigger6430Done
    /\ ret.tag = "none"
    /\ Len(io[1].cmds) = 12
    /\ outp
    /\ armed

\* the numbers the bulk query of the last get_buffer() received
Got == AsciiValues(io[1].reply)

\* C15: Keithley6430.get_buffer() issues exactly one TRAC:DATA? query and
\* for every non-empty reply returns one number, the sum of the samples
\* divided by their count; Keithley2182A.get_buffer() issues exactly one
\* TRAC:DATA? query and returns the whole sample sequence in order.
C15_MeanAndSequence ==
    op = "get_buffer" =>
        /\ Len(io) = 1
        /\ io[1].kind = "query_ascii_values"
        /\ io[1].cmds = <<"TRAC:DATA?">>
        /\ (drv = "Keithley6430" /\ io[1].fault = "none" /\ Len(Got) > 0) =>
              /\ ret.tag = "number"
              /\ ret.den > 0
              /\ ret.num * Len(Got) = Sum(Got) * ret.den
              /\ Got = <<1, 2, 3>> => ret.num = 2 * ret.den
              /\ Got = <<1, 2>> => 2 * ret.num = 3 * ret.den
        /\ (drv = "Keithley2182A" /\ io[1].fault = "none") =>
              /\ ret.tag = "list"
              /\ ret.items = Got

\* the readings 1, 2 average to 3/2
C15_Witness ==
    /\ op = "get_buffer"
    /\ drv = "Keithley6430"
    /\ io[1].reply = <<<<1>>, <<2>>>>
    /\ ret.tag = "number"
    /\ 2 * ret.num = 3 * ret.den

\* C17: once Keithley6430.trigger() has sent :OUTP ON the output stays on
\* through check_status(), get_buffer() and further trigger() calls; only
\* disable_source(), which sends :OUTP OFF, turns it off, so an acquisition
\* finished with get_buffer() alone leaves the output on.
C17_OutputStaysOn ==
    /\ []((Trigger6430Done /\ ret.tag = "none") => outp)
    /\ [][(outp /\ ~outp') =>
            /\ op' = "disable_source"
            /\ io'[1].kind = "write"
            /\ io'[1].cmds = <<":OUTP OFF">>]_vars
    /\ [][(outp /\ op' \in {"check_status", "get_buffer", "trigger"}) =>
            outp']_vars

\* the buffer was read after a trigger and the output is still on
C17_Witness ==
    /\ op = "get_buffer"
    /\ drv = "Keithley6430"
    /\ ret.tag = "number"
    /\ pre.seq = "Armed"
    /\ seq = "Done"
    /\ outp

\* C18: Keithley6430.get_buffer() on an empty reply returns no value: it
\* ends in a division-by-zero error, raised after its query was sent and
\* not caught by the driver.
C18_EmptyReplyRaises ==
    (op = "get_buffer" /\ drv = "Keithley6430" /\ io[1].fault = "none"
        /\ Len(io[1].reply) = 0) =>
        /\ ret = RetRaise("ZeroDivisionError")
        /\ Len(io) = 1
        /\ io[1].kind = "query_ascii_values"
        /\ io[1].cmds = <<"TRAC:DATA?">>

\* the buffer was read right after trigger() had cleared it
C18_Witness ==
    /\ op = "get_buffer"
    /\ drv = "Keithley6430"
    /\ pre.seq = "Armed"
    /\ ~pre.held
    /\ io[1].fault = "none"
    /\ ret = RetRaise("ZeroDivisionError")

\* a point of the record was written, as a whole number inside [low, high]
Unset(v) == IsText(v)
Within(v, low, high) ==
    /\ ~IsText(v)
    /\ v.e >= 0
    /\ ~Less(v, Num(low, 0))
    /\ ~Less(Num(high, 0), v)

\* C19: whatever numbers data_start and data_stop of TDS380 are set to, and
\* in whatever order, every DAT:STAR value sent lies in [1, 500] and every
\* DAT:STOP value sent in [501, 1000], so the start sent last is strictly
\* below the stop sent last.
C19_WindowOrdered ==
    drv = "TDS380" =>
        /\ SetOf("TDS380", "data_start") =>
              /\ Len(io) = 1
              /\ io[1].kind = "write"
              /\ io[1].cmds[1].lead = "DAT:STAR "
              /\ Within(Sent, 1, 500)
              /\ window.start = Sent
        /\ SetOf("TDS380", "data_stop") =>
              /\ Len(io) = 1
              /\ io[1].kind = "write"
              /\ io[1].cmds[1].lead = "DAT:STOP "
              /\ Within(Sent, 501, 1000)
              /\ window.stop = Sent
        /\ Unset(window.start) \/ Within(window.start, 1, 500)
        /\ Unset(window.stop) \/ Within(window.stop, 501, 1000)
        /\ (~Unset(window.start) /\ ~Unset(window.stop)) =>
              Less(window.start, window.stop)

\* stop set to 500 and then start set to 501: the window is [500, 501]
C19_Witness ==
    /\ SetOf("TDS380", "data_start")
    /\ arg.value = Num(501, 0)
    /\ window = [start |-> Num(500, 0), stop |-> Num(501, 0)]

\* the script is past its polling loop
LoopLeft == pc \in {"disable", "read", "done"}

\* C16: in the acquisition script of Keithley6430, get_buffer is issued only
\* after a check_status call returned True and after disable_source was
\* sent; the polling loop is left exactly when a check reports a register
\* value of 768 or more: while the register stays below 768 the loop never
\* exits, and once it stays at or above 768 the script comes to its end.
C16_UsageLoop ==
    /\ [][(pc = "loop" /\ pc' # pc) =>
            /\ op' = "check_status"
            /\ pc' = "disable" <=> (ret' = RetBool(TRUE) /\ cond >= 768)
            /\ pc' = "sleep" <=> (ret' = RetBool(FALSE) /\ cond < 768)
            /\ pc' = "aborted" <=> ret'.tag = "raise"]_vars
    /\ [][(pc' = "disable" /\ pc' # pc) => pc = "loop"]_vars
    /\ [][(pc' = "read" /\ pc' # pc) =>
            /\ pc = "disable"
            /\ op' = "disable_source"
            /\ io' = <<Write(<<":OUTP OFF">>, "ok")>>]_vars
    /\ [][(op' = "get_buffer" /\ pc' # pc) => pc = "read"]_vars
    /\ ([](cond < 768) => [](~LoopLeft))
    /\ (<>[](cond >= 768) => <>(pc \in {"done", "aborted"}))

\* the script ran to its end: the loop was left, the source switched off
\* and the mean of the readings returned
C16_Witness ==
    /\ pc = "done"
    /\ op = "get_buffer"
    /\ ret.tag = "number"
    /\ ~outp
    /\ trace # <<>>

====
